---- MODULE Spec2Model ----
(***************************************************************************)
(* A model of router.go of the mesh library: the gossip channel registry   *)
(* (NewGossip, GetGossip, gossipChannel) under its RWMutex, the dispatch   *)
(* of inbound gossip by protocol tag (handleGossip), the router as the     *)
(* Gossiper of the "topology" channel (OnGossipUnicast, OnGossipBroadcast, *)
(* OnGossip, applyTopologyUpdate) and topologyGossipData.Merge.            *)
(***************************************************************************)
EXTENDS Integers, Sequences, FiniteSets, TLC

\* ----------------------------------------------------------------- bounds
\* Number of goroutines that call into the registry concurrently.
NumProcs == 2
\* PeerNames are 1..MaxPeerName.
MaxPeerName == 3
\* Longest encoded topology update (number of peer entries).
MaxUpdateLen == 2

\* Failed accepts the listener goes through.
MaxAcceptErrors == 2

\* The constants of the accept rate limiter; durations are in milliseconds.
acceptMaxTokens == 20
acceptTokenDelay == 50

Procs == 1..NumProcs
PeerNames == 1..MaxPeerName

\* The local peer of the router under test (router.Ourself).
Ourself == 1

\* Channel names that occur on the wire or in registrations.
ChannelNames == {"topology", "app"}

\* Gossipers an application can pass to NewGossip.
AppGossipers == {"g1", "g2"}

\* Protocol tags carried by the framing layer; ProtocolHeartbeat stands for
\* every tag that handleGossip's switch has no case for.
GossipTags == {"ProtocolGossip", "ProtocolGossipUnicast", "ProtocolGossipBroadcast"}
ProtocolTags == GossipTags \cup {"ProtocolHeartbeat"}

VARIABLES
    gossipChannels,  \* router.gossipChannels: name -> channel (NoChannel if absent)
    gossipLock,      \* router.gossipLock: [writer, readers]
    surrogates,      \* per name, how many surrogate channels gossipChannel built
    peers,           \* per router, the names its Peers collaborator knows
    pc,              \* per goroutine, where it stands
    local,           \* per goroutine, the arguments, locals and results of its call
    connected,       \* per router, the peers its membership layer has connected to
    network,         \* topology gossip in flight between the two routers
    seen,            \* per router, the encoded topology deltas delivered to it so far
    lastDelivery,    \* per router, the outcome of the delivery it made last
    mergeA, mergeB,  \* the operands of Merge
    mergeAB, mergeBA, mergeAA,  \* the results of Merge
    GossiperMaker,   \* router.GossiperMaker: nil, or a maker and what its MakeGossiper calls
    makerCalls,      \* per name, how many times MakeGossiper was invoked for it
    acceptLimiter,   \* router.acceptLimiter: the token bucket of the accept loop
    acceptLoop       \* the goroutine of listenTCP: where it stands and what it did

vars == <<gossipChannels, gossipLock, surrogates, peers, pc, local, connected, network,
          seen, lastDelivery, mergeA, mergeB, mergeAB, mergeBA, mergeAA,
          GossiperMaker, makerCalls, acceptLimiter, acceptLoop>>

registryVars == <<gossipChannels, gossipLock, surrogates, pc, local>>
meshVars == <<connected, network, seen, lastDelivery>>
mergeVars == <<mergeA, mergeB, mergeAB, mergeBA, mergeAA>>
makerVars == <<GossiperMaker, makerCalls>>
acceptVars == <<acceptLimiter, acceptLoop>>

\* ------------------------------------------------------------- gossip data
\* A *topologyGossipData, or the nil GossipData.
NilData == [nil |-> TRUE, peers |-> 0, update |-> {}]

TopologyGossipData(router, update) == [nil |-> FALSE, peers |-> router, update |-> update]

\* The loop "for name := range src { names[name] = struct{}{} }".
RECURSIVE InsertAll(_, _)
InsertAll(names, src) ==
    IF src = {} THEN names
    ELSE LET name == CHOOSE n \in src : TRUE
         IN InsertAll(names \cup {name}, src \ {name})

\* Merge that keeps the other operand's names only.
Merge_overwrite(d, other) ==
    LET names0 == {}
        names2 == InsertAll(names0, other.update)
    IN  [nil |-> FALSE, peers |-> d.peers, update |-> names2]

\* topologyGossipData.Merge
Merge(d, other) ==
    LET names0 == {}
        names1 == InsertAll(names0, d.update)
        names2 == InsertAll(names1, other.update)
    IN  [nil |-> FALSE, peers |-> d.peers, update |-> names2]

\* ------------------------------------------------------------------ Peers
\* An encoded update is a sequence of peer entries; entry 0 is one that does
\* not decode.
UpdateEntries == 0..MaxPeerName

RECURSIVE SeqsUpTo(_, _)
SeqsUpTo(S, n) ==
    IF n = 0 THEN {<<>>}
    ELSE LET shorter == SeqsUpTo(S, n - 1)
         IN shorter \cup {Append(s, x) : s \in {t \in shorter : Len(t) = n - 1}, x \in S}

Updates == SeqsUpTo(UpdateEntries, MaxUpdateLen)

\* Peers.decodeUpdate: the names an update carries, or a decode error.
decodeUpdate(update) ==
    [err |-> \E i \in DOMAIN update : update[i] \notin PeerNames,
     names |-> {update[i] : i \in DOMAIN update}]

\* Peers.encodePeers: the wire form of a set of names (ascending).
RECURSIVE encodePeers(_)
encodePeers(names) ==
    IF names = {} THEN <<>>
    ELSE LET least == CHOOSE n \in names : \A m \in names : n <= m
         IN <<least>> \o encodePeers(names \ {least})

\* Peers.applyUpdate on a router that knows `known`: what the sender sent,
\* what of it was new, the error, and the membership afterwards.
applyUpdate(known, update) ==
    LET d == decodeUpdate(update)
    IN  IF d.err
        THEN [origUpdate |-> {}, newUpdate |-> {}, err |-> "decode", peers |-> known]
        ELSE [origUpdate |-> d.names, newUpdate |-> d.names \ known, err |-> "",
              peers |-> known \cup d.names]

\* ------------------------------------------------- the router as Gossiper
\* applyTopologyUpdate that looks at what was received, not at what was new.
applyTopologyUpdate_onOrig(known, update) ==
    LET r == applyUpdate(known, update)
    IN  IF r.err # ""
        THEN [origUpdate |-> {}, newUpdate |-> {}, err |-> r.err, peers |-> r.peers,
              refresh |-> 0, recalculate |-> 0]
        ELSE [origUpdate |-> r.origUpdate, newUpdate |-> r.newUpdate, err |-> "",
              peers |-> r.peers,
              refresh |-> IF Cardinality(r.origUpdate) > 0 THEN 1 ELSE 0,
              recalculate |-> IF Cardinality(r.origUpdate) > 0 THEN 1 ELSE 0]

\* Router.applyTopologyUpdate
applyTopologyUpdate(known, update) ==
    LET r == applyUpdate(known, update)
    IN  IF r.err # ""
        THEN [origUpdate |-> {}, newUpdate |-> {}, err |-> r.err, peers |-> r.peers,
              refresh |-> 0, recalculate |-> 0]
        ELSE [origUpdate |-> r.origUpdate, newUpdate |-> r.newUpdate, err |-> "",
              peers |-> r.peers,
              refresh |-> IF Cardinality(r.newUpdate) > 0 THEN 1 ELSE 0,
              recalculate |-> IF Cardinality(r.newUpdate) > 0 THEN 1 ELSE 0]

\* The outcome of a Gossiper callback: the GossipData and error it returns,
\* the membership it leaves, and what it invoked on the collaborators.
Outcome(data, err, r) ==
    [data |-> data, err |-> err, peers |-> r.peers, origUpdate |-> r.origUpdate,
     newUpdate |-> r.newUpdate, refresh |-> r.refresh, recalculate |-> r.recalculate]

Untouched(known) ==
    [origUpdate |-> {}, newUpdate |-> {}, err |-> "", peers |-> known,
     refresh |-> 0, recalculate |-> 0]

\* OnGossipUnicast that takes the message for a topology update.
OnGossipUnicast_applies(router, known, sender, msg) ==
    LET r == applyTopologyUpdate(known, msg)
    IN  Outcome(NilData, r.err, r)

\* Router.OnGossipUnicast
OnGossipUnicast(router, known, sender, msg) ==
    Outcome(NilData, "unexpected topology gossip unicast", Untouched(known))

\* OnGossipBroadcast that relays nothing when nothing was new.
OnGossipBroadcast_dropsRedundant(router, known, sender, update) ==
    LET r == applyTopologyUpdate(known, update)
    IN  IF r.err # "" \/ Cardinality(r.newUpdate) = 0
        THEN Outcome(NilData, r.err, r)
        ELSE Outcome(TopologyGossipData(router, r.origUpdate), "", r)

\* OnGossipBroadcast that relays the improvement, as OnGossip does.
OnGossipBroadcast_relaysNew(router, known, sender, update) ==
    LET r == applyTopologyUpdate(known, update)
    IN  IF r.err # "" \/ Cardinality(r.origUpdate) = 0
        THEN Outcome(NilData, r.err, r)
        ELSE Outcome(TopologyGossipData(router, r.newUpdate), "", r)

\* Router.OnGossipBroadcast
OnGossipBroadcast(router, known, sender, update) ==
    LET r == applyTopologyUpdate(known, update)
    IN  IF r.err # "" \/ Cardinality(r.origUpdate) = 0
        THEN Outcome(NilData, r.err, r)
        ELSE Outcome(TopologyGossipData(router, r.origUpdate), "", r)

\* OnGossip that relays what was received, as OnGossipBroadcast does.
OnGossip_relaysOrig(router, known, update) ==
    LET r == applyTopologyUpdate(known, update)
    IN  IF r.err # "" \/ Cardinality(r.origUpdate) = 0
        THEN Outcome(NilData, r.err, r)
        ELSE Outcome(TopologyGossipData(router, r.origUpdate), "", r)

\* Router.OnGossip
OnGossip(router, known, update) ==
    LET r == applyTopologyUpdate(known, update)
    IN  IF r.err # "" \/ Cardinality(r.newUpdate) = 0
        THEN Outcome(NilData, r.err, r)
        ELSE Outcome(TopologyGossipData(router, r.newUpdate), "", r)

\* Router.Gossip
Gossip(router, known) == TopologyGossipData(router, known)

\* ------------------------------------------------------- gossip channels
\* A *gossipChannel: its address, its name and its Gossiper. NoChannel is
\* the nil channel, which is also what a map read of an absent name yields.
NoChannel == [id |-> 0, name |-> "", gossiper |-> ""]

newGossipChannel(id, channelName, g) == [id |-> id, name |-> channelName, gossiper |-> g]

\* Addresses: a new channel gets an address that no live channel has (one in
\* the registry or referenced by a goroutine); dead channels are collected,
\* so their addresses may come back.
ChannelIds == 1..(Cardinality(ChannelNames) * (NumProcs + 1) + 1)

LiveIds ==
    {gossipChannels[n].id : n \in ChannelNames}
        \cup {local[p].channel.id : p \in Procs}
        \cup UNION {{c.id : c \in local[p].channels} : p \in Procs}

FreshId == CHOOSE i \in ChannelIds : i \notin LiveIds

\* make(gossipChannels)
EmptyChannels == [n \in ChannelNames |-> NoChannel]

\* NewGossip without the duplicate check: the new channel replaces the old.
NewGossipLocked_overwrite(channels, channelName, channel) ==
    [channels |-> [channels EXCEPT ![channelName] = channel], channel |-> channel, err |-> ""]

\* The body of NewGossip under the lock: the map afterwards and what is
\* returned.
NewGossipLocked(channels, channelName, channel) ==
    IF channels[channelName] # NoChannel
    THEN [channels |-> channels, channel |-> NoChannel, err |-> "duplicate channel"]
    ELSE [channels |-> [channels EXCEPT ![channelName] = channel],
          channel |-> channel, err |-> ""]

\* router.GossiperMaker: nil, or a maker. A maker's MakeGossiper returns the
\* gossiper "made"; `calls` names the registry operation of the router that
\* MakeGossiper calls before it returns, "" if it calls none.
NoMaker == [nil |-> TRUE, calls |-> ""]
Maker(calls) == [nil |-> FALSE, calls |-> calls]
RegistryOps == {"NewGossip", "GetGossip", "gossipChannel", "gossipChannelSet"}
GossiperMakers == {NoMaker, Maker("")} \cup {Maker(op) : op \in RegistryOps}

\* A gossipChannel that never asks the GossiperMaker.
SurrogateGossiper_ignoresMaker(channelName) == "surrogate"

\* gossipChannel, lines 177-184: the gossiper of a surrogate channel, made by
\* the GossiperMaker if there is one, the default surrogateGossiper if not.
SurrogateGossiper(channelName) == IF GossiperMaker.nil THEN "surrogate" ELSE "made"

\* gossipChannel without the second look-up under the exclusive lock.
gossipChannelLocked_nocheck(channels, channelName, id) ==
    LET channel == newGossipChannel(id, channelName, SurrogateGossiper(channelName))
    IN  [channels |-> [channels EXCEPT ![channelName] = channel],
         channel |-> channel, created |-> TRUE]

\* The body of gossipChannel under the exclusive lock: the second look-up,
\* and the creation of the surrogate channel if the name is still absent.
gossipChannelLocked(channels, channelName, id) ==
    IF channels[channelName] # NoChannel
    THEN [channels |-> channels, channel |-> channels[channelName], created |-> FALSE]
    ELSE LET channel == newGossipChannel(id, channelName, SurrogateGossiper(channelName))
         IN  [channels |-> [channels EXCEPT ![channelName] = channel],
              channel |-> channel, created |-> TRUE]

\* sync.RWMutex. (A waiting writer also holds back new readers in Go; the
\* model admits them, which only adds interleavings.)
Unlocked == [writer |-> 0, readers |-> {}]
CanLock == gossipLock.writer = 0 /\ gossipLock.readers = {}
CanRLock == gossipLock.writer = 0
Lock(p) == [gossipLock EXCEPT !.writer = p]
Unlock(p) == [gossipLock EXCEPT !.writer = 0]
RLock(p) == [gossipLock EXCEPT !.readers = @ \cup {p}]
RUnlock(p) == [gossipLock EXCEPT !.readers = @ \ {p}]

\* ------------------------------------------------------------- wire format
\* A payload is a gob stream: a sequence of encoded values, which the
\* decoder reads front to back, once. A value of another type than the one
\* asked for, or the end of the stream, is a decode error. The model draws
\* each value of the stream when the decoder reaches it, so local.payload
\* holds the part of the payload read so far.
StringValue(s) == [type |-> "string", s |-> s, n |-> 0, b |-> <<>>]
PeerNameValue(n) == [type |-> "PeerName", s |-> "", n |-> n, b |-> <<>>]
BytesValue(b) == [type |-> "bytes", s |-> "", n |-> 0, b |-> b]
Garbage == [type |-> "garbage", s |-> "", n |-> 0, b |-> <<>>]
EndOfStream == [type |-> "EOF", s |-> "", n |-> 0, b |-> <<>>]

\* decoder.Decode(&v) for v of type `type`, the decoder standing at pos.
Decode(payload, pos, type) ==
    IF pos <= Len(payload) /\ payload[pos].type = type
    THEN [err |-> "", value |-> payload[pos]]
    ELSE [err |-> "decode", value |-> Garbage]

Senders == PeerNames \ {Ourself}

\* What can stand in a payload where the channel name, the sender and the
\* message are expected.
NameValues == {StringValue(n) : n \in ChannelNames} \cup {Garbage, EndOfStream}
SrcValues == {PeerNameValue(n) : n \in Senders} \cup {Garbage, EndOfStream}
MsgValues == {BytesValue(u) : u \in Updates} \cup {Garbage, EndOfStream}

\* ---------------------------------------------------------------- delivery
\* What a Gossiper callback does, by the channel's Gossiper: the router's
\* own callbacks for "router"; nothing for the surrogate; an application
\* gossiper leaves the router alone and fails or not (appErr).
NoOutcome == Outcome(NilData, "", Untouched({}))

Callback(gossiper, method, router, known, sender, msg, appErr) ==
    IF gossiper = "router"
    THEN CASE method = "OnGossipUnicast" -> OnGossipUnicast(router, known, sender, msg)
           [] method = "OnGossipBroadcast" -> OnGossipBroadcast(router, known, sender, msg)
           [] OTHER -> OnGossip(router, known, msg)
    ELSE IF gossiper = "surrogate"
    THEN Outcome(NilData, "", Untouched(known))
    ELSE Outcome(NilData, appErr, Untouched(known))

\* gossipChannel.deliverUnicast, deliverBroadcast and deliver: decode the
\* message from the rest of the payload and hand it to the Gossiper's
\* callback for that delivery mode.
DeliveryCallback(delivery) ==
    CASE delivery = "deliverUnicast" -> "OnGossipUnicast"
      [] delivery = "deliverBroadcast" -> "OnGossipBroadcast"
      [] OTHER -> "OnGossip"

Deliver(delivery, channel, srcName, payload, pos, router, known, appErr) ==
    LET msg == Decode(payload, pos, "bytes")
    IN  IF msg.err # ""
        THEN [callbacks |-> <<>>, out |-> Outcome(NilData, msg.err, Untouched(known))]
        ELSE [callbacks |-> <<[method |-> DeliveryCallback(delivery), gossiper |-> channel.gossiper]>>,
              out |-> Callback(channel.gossiper, DeliveryCallback(delivery), router, known,
                               srcName, msg.value.b, appErr)]

\* The switch with the unicast and broadcast cases exchanged.
handleGossipSwitch_swapped(tag) ==
    CASE tag = "ProtocolGossipUnicast" -> "deliverBroadcast"
      [] tag = "ProtocolGossipBroadcast" -> "deliverUnicast"
      [] tag = "ProtocolGossip" -> "deliver"
      [] OTHER -> ""

\* The switch with a default case that delivers by merge.
handleGossipSwitch_defaultDeliver(tag) ==
    CASE tag = "ProtocolGossipUnicast" -> "deliverUnicast"
      [] tag = "ProtocolGossipBroadcast" -> "deliverBroadcast"
      [] OTHER -> "deliver"

\* The switch of handleGossip: the delivery operation the tag selects, ""
\* if the switch has no case for the tag.
handleGossipSwitch(tag) ==
    CASE tag = "ProtocolGossipUnicast" -> "deliverUnicast"
      [] tag = "ProtocolGossipBroadcast" -> "deliverBroadcast"
      [] tag = "ProtocolGossip" -> "deliver"
      [] OTHER -> ""

\* -------------------------------------------------------------- goroutines
\* A goroutine is idle, inside one call, or back from it ("done", with the
\* call's arguments and results still in local). local.lookups counts the
\* reads of the registry map that gossipChannel has made; local.channels is
\* the set gossipChannelSet returned, local.remaining the part of it the
\* range loop of sendAllGossip has yet to visit, local.sends what the loop
\* did so far.
NoLocal ==
    [op |-> "", name |-> "", g |-> "", channel |-> NoChannel, found |-> FALSE,
     lookups |-> 0, tag |-> "", payload |-> <<>>, pos |-> 1, srcName |-> 0, err |-> "",
     delivered |-> <<>>, callbacks |-> <<>>, known |-> {}, out |-> NoOutcome,
     channels |-> {}, remaining |-> {}, sends |-> {}]

Returned(p) == pc[p] \in {"idle", "done"}

\* NewGossip, line 146: the channel is built before the lock is taken.
NewGossipCall(p, channelName, g) ==
    /\ Returned(p)
    /\ local' = [local EXCEPT ![p] =
                    [NoLocal EXCEPT !.op = "NewGossip", !.name = channelName, !.g = g,
                                    !.channel = newGossipChannel(FreshId, channelName, g)]]
    /\ pc' = [pc EXCEPT ![p] = "NewGossip_Lock"]
    /\ UNCHANGED <<gossipChannels, gossipLock, surrogates, peers, meshVars, mergeVars, makerVars, acceptVars>>

\* NewGossip, line 147: router.gossipLock.Lock()
NewGossipLock(p) ==
    /\ pc[p] = "NewGossip_Lock"
    /\ CanLock
    /\ gossipLock' = Lock(p)
    /\ pc' = [pc EXCEPT ![p] = "NewGossip_locked"]
    /\ UNCHANGED <<gossipChannels, surrogates, peers, local, meshVars, mergeVars, makerVars, acceptVars>>

\* NewGossip, lines 148-153: the look-up, the store and the deferred Unlock.
NewGossipBody(p) ==
    /\ pc[p] = "NewGossip_locked"
    /\ LET r == NewGossipLocked(gossipChannels, local[p].name, local[p].channel)
       IN  /\ gossipChannels' = r.channels
           /\ local' = [local EXCEPT ![p].channel = r.channel, ![p].err = r.err,
                                     ![p].found = (r.err # "")]
    /\ gossipLock' = Unlock(p)
    /\ pc' = [pc EXCEPT ![p] = "done"]
    /\ UNCHANGED <<surrogates, peers, meshVars, mergeVars, makerVars, acceptVars>>

\* GetGossip, line 158: router.gossipLock.Lock()
GetGossipLock(p, channelName) ==
    /\ Returned(p)
    /\ CanLock
    /\ gossipLock' = Lock(p)
    /\ local' = [local EXCEPT ![p] = [NoLocal EXCEPT !.op = "GetGossip", !.name = channelName]]
    /\ pc' = [pc EXCEPT ![p] = "GetGossip_locked"]
    /\ UNCHANGED <<gossipChannels, surrogates, peers, meshVars, mergeVars, makerVars, acceptVars>>

\* GetGossip, lines 159-160: the map read and the deferred Unlock.
GetGossipBody(p) ==
    /\ pc[p] = "GetGossip_locked"
    /\ local' = [local EXCEPT ![p].channel = gossipChannels[local[p].name],
                              ![p].found = (gossipChannels[local[p].name] # NoChannel)]
    /\ gossipLock' = Unlock(p)
    /\ pc' = [pc EXCEPT ![p] = "done"]
    /\ UNCHANGED <<gossipChannels, surrogates, peers, meshVars, mergeVars, makerVars, acceptVars>>

\* A direct call of gossipChannel(channelName).
gossipChannelCall(p, channelName) ==
    /\ Returned(p)
    /\ local' = [local EXCEPT ![p] = [NoLocal EXCEPT !.op = "gossipChannel", !.name = channelName]]
    /\ pc' = [pc EXCEPT ![p] = "gossipChannel_RLock"]
    /\ UNCHANGED <<gossipChannels, gossipLock, surrogates, peers, meshVars, mergeVars, makerVars, acceptVars>>

\* gossipChannel, line 164: router.gossipLock.RLock()
gossipChannelRLock(p) ==
    /\ pc[p] = "gossipChannel_RLock"
    /\ CanRLock
    /\ gossipLock' = RLock(p)
    /\ pc' = [pc EXCEPT ![p] = "gossipChannel_rlocked"]
    /\ UNCHANGED <<gossipChannels, surrogates, peers, local, meshVars, mergeVars, makerVars, acceptVars>>

\* Where gossipChannel returns to: its caller handleGossip, or the goroutine.
gossipChannelReturn(p) == IF local[p].op = "handleGossip" THEN "handleGossip_channel" ELSE "done"

\* gossipChannel, lines 165-169: the first look-up, RUnlock, and the return
\* of a channel that was found.
gossipChannelRead(p) ==
    /\ pc[p] = "gossipChannel_rlocked"
    /\ LET channel == gossipChannels[local[p].name]
           found == channel # NoChannel
       IN  /\ local' = [local EXCEPT ![p].channel = channel, ![p].found = found,
                                     ![p].lookups = 1]
           /\ pc' = [pc EXCEPT ![p] = IF found THEN gossipChannelReturn(p)
                                      ELSE "gossipChannel_Lock"]
    /\ gossipLock' = RUnlock(p)
    /\ UNCHANGED <<gossipChannels, surrogates, peers, meshVars, mergeVars, makerVars, acceptVars>>

\* gossipChannel, line 170: router.gossipLock.Lock()
gossipChannelLock(p) ==
    /\ pc[p] = "gossipChannel_Lock"
    /\ CanLock
    /\ gossipLock' = Lock(p)
    /\ pc' = [pc EXCEPT ![p] = "gossipChannel_locked"]
    /\ UNCHANGED <<gossipChannels, surrogates, peers, local, meshVars, mergeVars, makerVars, acceptVars>>

\* Whether MakeGossiper, called for channelName under the exclusive lock,
\* calls back into the registry: the name is still absent, there is a
\* maker, and it calls a registry operation.
MakerCallsBack(channels, channelName) ==
    /\ channels[channelName] = NoChannel
    /\ ~GossiperMaker.nil
    /\ GossiperMaker.calls # ""

\* gossipChannel, lines 171-188: the second look-up, the surrogate channel,
\* the store and the deferred Unlock. A MakeGossiper that calls a registry
\* operation of the router stops at that operation's Lock() or RLock():
\* the goroutine holds the write lock itself, sync.RWMutex is not
\* reentrant, and so it stays in "MakeGossiper_Lock".
gossipChannelCreate(p) ==
    /\ pc[p] = "gossipChannel_locked"
    /\ IF MakerCallsBack(gossipChannels, local[p].name)
       THEN /\ makerCalls' = [makerCalls EXCEPT ![local[p].name] = @ + 1]
            /\ local' = [local EXCEPT ![p].found = FALSE, ![p].lookups = 2]
            /\ pc' = [pc EXCEPT ![p] = "MakeGossiper_Lock"]
            /\ UNCHANGED <<gossipChannels, gossipLock, surrogates>>
       ELSE /\ LET r == gossipChannelLocked(gossipChannels, local[p].name, FreshId)
               IN  /\ gossipChannels' = r.channels
                   /\ local' = [local EXCEPT ![p].channel = r.channel,
                                             ![p].found = ~r.created, ![p].lookups = 2]
                   /\ surrogates' = [surrogates EXCEPT ![local[p].name] =
                                        IF r.created THEN @ + 1 ELSE @]
                   /\ makerCalls' = [makerCalls EXCEPT ![local[p].name] =
                                        IF r.created /\ ~GossiperMaker.nil THEN @ + 1 ELSE @]
            /\ gossipLock' = Unlock(p)
            /\ pc' = [pc EXCEPT ![p] = gossipChannelReturn(p)]
    /\ UNCHANGED <<peers, meshVars, mergeVars, GossiperMaker, acceptVars>>

\* handleGossip, lines 210-215: decode the channel name; on success go on
\* to gossipChannel(channelName). `first` is the first value of the payload.
handleGossipCall(p, tag, first) ==
    /\ Returned(p)
    /\ LET payload == <<first>>
           d == Decode(payload, 1, "string")
           call == [NoLocal EXCEPT !.op = "handleGossip", !.tag = tag, !.payload = payload]
       IN  IF d.err # ""
           THEN /\ local' = [local EXCEPT ![p] = [call EXCEPT !.err = d.err]]
                /\ pc' = [pc EXCEPT ![p] = "done"]
           ELSE /\ local' = [local EXCEPT ![p] = [call EXCEPT !.name = d.value.s, !.pos = 2]]
                /\ pc' = [pc EXCEPT ![p] = "gossipChannel_RLock"]
    /\ UNCHANGED <<gossipChannels, gossipLock, surrogates, peers, meshVars, mergeVars, makerVars, acceptVars>>

\* Whether handleGossip, with `second` where the sender is expected, goes on
\* to a delivery, which reads the next value of the payload.
ReadsMessage(p, second) ==
    Decode(<<second>>, 1, "PeerName").err = "" /\ handleGossipSwitch(local[p].tag) # ""

\* Whether the delivery of `third` ends in a callback of a gossiper other
\* than the router and the default surrogate.
CallsApplication(p, third) ==
    /\ Decode(<<third>>, 1, "bytes").err = ""
    /\ local[p].channel.gossiper \notin {"router", "surrogate"}

\* handleGossip, lines 216-228: decode the sender, then the switch on the
\* tag and the delivery it selects. `second` and `third` are the next
\* values of the payload, `third` drawn only if a delivery reads it; appErr
\* is what the callback returns if it is an application's.
handleGossipDispatch(p, second, third, appErr) ==
    /\ pc[p] = "handleGossip_channel"
    /\ ~ReadsMessage(p, second) => third = EndOfStream /\ appErr = ""
    /\ ~CallsApplication(p, third) => appErr = ""
    /\ LET payload == local[p].payload \o (IF ReadsMessage(p, second)
                                            THEN <<second, third>> ELSE <<second>>)
           d == Decode(payload, local[p].pos, "PeerName")
           delivery == handleGossipSwitch(local[p].tag)
           known == peers[Ourself]
       IN  IF d.err # ""
           THEN /\ local' = [local EXCEPT ![p].err = d.err, ![p].known = known,
                                          ![p].payload = payload]
                /\ peers' = peers
           ELSE IF delivery = ""
           THEN /\ local' = [local EXCEPT ![p].srcName = d.value.n, ![p].pos = 3,
                                          ![p].known = known, ![p].payload = payload]
                /\ peers' = peers
           ELSE LET r == Deliver(delivery, local[p].channel, d.value.n, payload,
                                 3, Ourself, known, appErr)
                IN  /\ local' = [local EXCEPT
                                    ![p].srcName = d.value.n, ![p].pos = 3,
                                    ![p].known = known, ![p].payload = payload,
                                    ![p].delivered = <<[op |-> delivery,
                                                        channel |-> local[p].channel]>>,
                                    ![p].callbacks = r.callbacks,
                                    ![p].out = r.out,
                                    ![p].err = r.out.err]
                    /\ peers' = [peers EXCEPT ![Ourself] = r.out.peers]
    /\ pc' = [pc EXCEPT ![p] = "done"]
    /\ UNCHANGED <<gossipChannels, gossipLock, surrogates, meshVars, mergeVars, makerVars, acceptVars>>

\* gossipChannelSet that returns with the read lock still held, so that the
\* caller ranges over the channels under the lock.
gossipChannelSetLocked_keepsLock(channels, p) ==
    [channels |-> {channels[n] : n \in {m \in ChannelNames : channels[m] # NoChannel}},
     lock |-> gossipLock]

\* The body of gossipChannelSet under the read lock, lines 195-198: the copy
\* of every registered channel into a fresh set, and the deferred RUnlock.
gossipChannelSetLocked(channels, p) ==
    [channels |-> {channels[n] : n \in {m \in ChannelNames : channels[m] # NoChannel}},
     lock |-> RUnlock(p)]

\* The callers of gossipChannelSet.
SendAllOps == {"sendAllGossip", "sendAllGossipDown"}

\* gossipChannelSet, line 192, called on its own or as the range expression
\* of sendAllGossip (line 233) or sendAllGossipDown (line 242).
gossipChannelSetCall(p, op) ==
    /\ Returned(p)
    /\ local' = [local EXCEPT ![p] = [NoLocal EXCEPT !.op = op]]
    /\ pc' = [pc EXCEPT ![p] = "gossipChannelSet_RLock"]
    /\ UNCHANGED <<gossipChannels, gossipLock, surrogates, peers, meshVars, mergeVars, makerVars, acceptVars>>

\* gossipChannelSet, line 193: router.gossipLock.RLock()
gossipChannelSetRLock(p) ==
    /\ pc[p] = "gossipChannelSet_RLock"
    /\ CanRLock
    /\ gossipLock' = RLock(p)
    /\ pc' = [pc EXCEPT ![p] = "gossipChannelSet_rlocked"]
    /\ UNCHANGED <<gossipChannels, surrogates, peers, local, meshVars, mergeVars, makerVars, acceptVars>>

\* gossipChannelSet, lines 194-198: the copy, the deferred RUnlock and the
\* return, to the goroutine or into the range loop of its caller.
gossipChannelSetCopy(p) ==
    /\ pc[p] = "gossipChannelSet_rlocked"
    /\ LET r == gossipChannelSetLocked(gossipChannels, p)
       IN  /\ local' = [local EXCEPT ![p].channels = r.channels,
                                     ![p].remaining = r.channels]
           /\ gossipLock' = r.lock
           /\ pc' = [pc EXCEPT ![p] = IF local[p].op \in SendAllOps /\ r.channels # {}
                                      THEN "sendAllGossip_range" ELSE "done"]
    /\ UNCHANGED <<gossipChannels, surrogates, peers, meshVars, mergeVars, makerVars, acceptVars>>

\* Whether goroutine p holds the registry lock, shared or exclusive.
HoldsLock(p) == gossipLock.writer = p \/ p \in gossipLock.readers

\* channel.gossiper.Gossip(): the router gossips all the peers it knows, the
\* default surrogate has nothing to gossip, and an application's gossiper
\* has something or not (pending).
GossiperGossip(gossiper, router, known, pending) ==
    IF gossiper = "router" THEN Gossip(router, known)
    ELSE IF gossiper = "surrogate" THEN NilData
    ELSE IF pending THEN TopologyGossipData(0, {}) ELSE NilData

\* sendAllGossip and sendAllGossipDown, one turn of the range loop (lines
\* 233-237, 242-246): Gossip() of the channel's gossiper and, if it returns
\* data, Send or SendDown. The order of a range over a map is not fixed.
sendAllGossipRange(p, channel, pending) ==
    /\ pc[p] = "sendAllGossip_range"
    /\ channel \in local[p].remaining
    /\ LET gossip == GossiperGossip(channel.gossiper, Ourself, peers[Ourself], pending)
       IN  local' = [local EXCEPT
                        ![p].remaining = @ \ {channel},
                        ![p].sends = @ \cup {[channel |-> channel,
                                              sent |-> ~gossip.nil,
                                              locked |-> HoldsLock(p)]}]
    /\ pc' = [pc EXCEPT ![p] = IF local[p].remaining = {channel} THEN "done"
                               ELSE "sendAllGossip_range"]
    /\ UNCHANGED <<gossipChannels, gossipLock, surrogates, peers, meshVars, mergeVars, makerVars, acceptVars>>

\* ------------------------------------------------------------ accept loop
\* The rate limiter: a bucket of at most `capacity` tokens, full when made.
\* A token comes back once tokenInterval has passed since the last token
\* was taken or came back; sinceLast is the time passed since then.
newTokenBucket(capacity, tokenInterval) ==
    [capacity |-> capacity, tokenInterval |-> tokenInterval, tokens |-> capacity,
     sinceLast |-> 0]

\* tokenBucket.wait once a token is there: take it.
takeToken(tb) == [tb EXCEPT !.tokens = @ - 1, !.sinceLast = 0]

\* The bucket after time d has passed.
refill(tb, d) ==
    IF tb.tokens >= tb.capacity THEN tb
    ELSE IF tb.sinceLast + d >= tb.tokenInterval
    THEN [tb EXCEPT !.tokens = @ + 1, !.sinceLast = 0]
    ELSE [tb EXCEPT !.sinceLast = @ + d]

\* NewRouter with the arguments of newTokenBucket exchanged.
NewRouter_acceptLimiter_swapped == newTokenBucket(acceptTokenDelay, acceptMaxTokens)

\* NewRouter, line 91: router.acceptLimiter
NewRouter_acceptLimiter == newTokenBucket(acceptMaxTokens, acceptTokenDelay)

\* Time passes in steps of a fifth of the token delay.
TimeStep == acceptTokenDelay \div 5

\* Connections the listener accepts: enough to empty the bucket and go on.
MaxConns == acceptMaxTokens + 2

\* The goroutine started by listenTCP. accepted, handedOff, waits and logged
\* count the connections AcceptTCP returned, the calls of acceptTCP, the
\* calls of wait() that returned and the errors logged; blocked is how long
\* the wait() under way has blocked, lastBlocked how long the last wait()
\* blocked; burst says that no time has passed outside wait() so far.
NewAcceptLoop ==
    [pc |-> "AcceptTCP", accepted |-> 0, handedOff |-> 0, waits |-> 0, logged |-> 0,
     blocked |-> 0, lastBlocked |-> 0, burst |-> TRUE]

\* The loop without the continue: a failed accept falls through to acceptTCP.
AcceptTCPResult_fallsThrough(loop, err) ==
    IF err
    THEN [loop EXCEPT !.logged = @ + 1, !.pc = "acceptTCP"]
    ELSE [loop EXCEPT !.accepted = @ + 1, !.pc = "acceptTCP"]

\* listenTCP, lines 124-128: AcceptTCP returned; an error is logged and the
\* loop goes on to the next AcceptTCP, a connection goes to acceptTCP.
AcceptTCPResult(loop, err) ==
    IF err
    THEN [loop EXCEPT !.logged = @ + 1, !.pc = "AcceptTCP"]
    ELSE [loop EXCEPT !.accepted = @ + 1, !.pc = "acceptTCP"]

\* listenTCP, line 124: ln.AcceptTCP() returns a connection or an error.
AcceptTCP(err) ==
    /\ acceptLoop.pc = "AcceptTCP"
    /\ IF err THEN acceptLoop.logged < MaxAcceptErrors ELSE acceptLoop.accepted < MaxConns
    /\ acceptLoop' = AcceptTCPResult(acceptLoop, err)
    /\ UNCHANGED <<registryVars, peers, meshVars, mergeVars, makerVars, acceptLimiter>>

\* listenTCP, line 129, and acceptTCP, lines 136-139: the connection is
\* handed to startLocalConnection.
acceptTCP ==
    /\ acceptLoop.pc = "acceptTCP"
    /\ acceptLoop' = [acceptLoop EXCEPT !.handedOff = @ + 1, !.pc = "wait"]
    /\ UNCHANGED <<registryVars, peers, meshVars, mergeVars, makerVars, acceptLimiter>>

\* listenTCP, line 130: router.acceptLimiter.wait() takes a token and
\* returns, or blocks if there is none.
wait ==
    /\ acceptLoop.pc = "wait"
    /\ IF acceptLimiter.tokens > 0
       THEN /\ acceptLimiter' = takeToken(acceptLimiter)
            /\ acceptLoop' = [acceptLoop EXCEPT !.waits = @ + 1, !.lastBlocked = 0,
                                                !.pc = "AcceptTCP"]
       ELSE /\ acceptLimiter' = acceptLimiter
            /\ acceptLoop' = [acceptLoop EXCEPT !.blocked = 0, !.pc = "wait_blocked"]
    /\ UNCHANGED <<registryVars, peers, meshVars, mergeVars, makerVars>>

\* The blocked wait() returns as soon as a token is there.
waitReturn ==
    /\ acceptLoop.pc = "wait_blocked"
    /\ acceptLimiter.tokens > 0
    /\ acceptLimiter' = takeToken(acceptLimiter)
    /\ acceptLoop' = [acceptLoop EXCEPT !.waits = @ + 1, !.lastBlocked = acceptLoop.blocked,
                                        !.blocked = 0, !.pc = "AcceptTCP"]
    /\ UNCHANGED <<registryVars, peers, meshVars, mergeVars, makerVars>>

\* Time passes: anywhere in the loop, and in a wait() for as long as it is
\* blocked on an empty bucket. (Once the bucket is full and time has passed
\* outside wait(), more time changes nothing.)
Tick ==
    /\ \/ acceptLoop.pc = "wait_blocked" /\ acceptLimiter.tokens = 0
       \/ acceptLoop.pc # "wait_blocked" /\ acceptLimiter.tokens < acceptLimiter.capacity
       \/ acceptLoop.pc # "wait_blocked" /\ acceptLoop.burst
    /\ acceptLimiter' = refill(acceptLimiter, TimeStep)
    /\ acceptLoop' = IF acceptLoop.pc = "wait_blocked"
                     THEN [acceptLoop EXCEPT !.blocked = @ + TimeStep]
                     ELSE [acceptLoop EXCEPT !.burst = FALSE]
    /\ UNCHANGED <<registryVars, peers, meshVars, mergeVars, makerVars>>

\* ------------------------------------------------------------ two routers
\* The mesh of the end-to-end scenario: two routers, neighbours of each
\* other, and a third peer that both come to know.
Routers == {Ourself, Ourself + 1}
ThirdPeer == Cardinality(Routers) + 1
Neighbours(router) == Routers \ {router}

\* topologyGossipData.Encode
Encode(d) == <<encodePeers(d.update)>>

\* A gossip message on the connection to router `to`.
Message(from, to, tag, update) == [from |-> from, to |-> to, tag |-> tag, update |-> update]

TopologyTags == {"ProtocolGossip", "ProtocolGossipBroadcast"}

\* Router.broadcastTopologyUpdate: wrap the names as topologyGossipData and
\* gossip it to a subset of the neighbours.
broadcastTopologyUpdate(router, update, targets, tag) ==
    LET gossipData == TopologyGossipData(router, update)
    IN  {Message(router, t, tag, Encode(gossipData)[1]) : t \in targets}

\* What a delivery relays: merge delivery sends the returned improvement to
\* the neighbours, broadcast delivery passes the returned data on to the
\* neighbours other than the one it came from.
Relay(router, from, tag, data) ==
    IF data.nil THEN {}
    ELSE LET targets == IF tag = "ProtocolGossip" THEN Neighbours(router)
                        ELSE Neighbours(router) \ {from}
         IN  {Message(router, t, tag, Encode(data)[1]) : t \in targets}

NoDelivery == [update |-> <<>>, tag |-> "", repeated |-> FALSE, known |-> {}, out |-> NoOutcome]

\* The membership layer of `router` connects to peer `name` and pushes the
\* change with broadcastTopologyUpdate.
Learn(router, name, targets, tag) ==
    /\ name \notin connected[router]
    /\ connected' = [connected EXCEPT ![router] = @ \cup {name}]
    /\ peers' = [peers EXCEPT ![router] = @ \cup {name}]
    /\ network' = network \cup broadcastTopologyUpdate(router, {name}, targets, tag)
    /\ UNCHANGED <<registryVars, seen, lastDelivery, mergeVars, makerVars, acceptVars>>

\* A topology message reaches its router: handleGossip resolves "topology",
\* whose Gossiper is the router (every router's NewRouter registers it, so
\* both routers hold the same entry), and the delivery the tag selects
\* calls OnGossipBroadcast or OnGossip. The connection may deliver the
\* message again later (keep).
DeliverTopology(msg, keep) ==
    /\ msg \in network
    /\ LET router == msg.to
           known == peers[router]
           r == Deliver(handleGossipSwitch(msg.tag), gossipChannels["topology"], msg.from,
                        <<StringValue("topology"), PeerNameValue(msg.from), BytesValue(msg.update)>>,
                        3, router, known, "")
       IN  /\ peers' = [peers EXCEPT ![router] = r.out.peers]
           /\ lastDelivery' = [lastDelivery EXCEPT ![router] =
                                  [update |-> msg.update, tag |-> msg.tag,
                                   repeated |-> msg.update \in seen[router],
                                   known |-> known, out |-> r.out]]
           /\ seen' = [seen EXCEPT ![router] = @ \cup {msg.update}]
           /\ network' = (IF keep THEN network ELSE network \ {msg})
                            \cup Relay(router, msg.from, msg.tag, r.out.data)
    /\ UNCHANGED <<registryVars, connected, mergeVars, makerVars, acceptVars>>

\* ------------------------------------------------------------------ Merge
MergeAB ==
    /\ mergeAB.nil
    /\ mergeAB' = Merge(mergeA, mergeB)
    /\ UNCHANGED <<registryVars, peers, meshVars, mergeA, mergeB, mergeBA, mergeAA, makerVars, acceptVars>>

MergeBA ==
    /\ mergeBA.nil
    /\ mergeBA' = Merge(mergeB, mergeA)
    /\ UNCHANGED <<registryVars, peers, meshVars, mergeA, mergeB, mergeAB, mergeAA, makerVars, acceptVars>>

MergeAA ==
    /\ mergeAA.nil
    /\ mergeAA' = Merge(mergeA, mergeA)
    /\ UNCHANGED <<registryVars, peers, meshVars, mergeA, mergeB, mergeAB, mergeBA, makerVars, acceptVars>>

\* --------------------------------------------------------- specifications
\* NewRouter: an empty registry in which the router registers itself as the
\* Gossiper of "topology"; Peers knows the local peer only.
InitRegistry ==
    /\ gossipChannels =
          NewGossipLocked(EmptyChannels, "topology",
                          newGossipChannel(1, "topology", "router")).channels
    /\ gossipLock = Unlocked
    /\ surrogates = [n \in ChannelNames |-> 0]
    /\ peers = [r \in Routers |-> {r}]
    /\ pc = [p \in Procs |-> "idle"]
    /\ local = [p \in Procs |-> NoLocal]
    /\ makerCalls = [n \in ChannelNames |-> 0]

\* NewRouter, line 91, and the accept loop as Start leaves it.
InitAccept ==
    /\ acceptLimiter = NewRouter_acceptLimiter
    /\ acceptLoop = NewAcceptLoop

\* A router whose GossiperMaker was left nil.
InitRouter ==
    /\ InitRegistry
    /\ InitAccept
    /\ GossiperMaker = NoMaker

InitMesh ==
    /\ connected = [r \in Routers |-> {}]
    /\ network = {}
    /\ seen = [r \in Routers |-> {}]
    /\ lastDelivery = [r \in Routers |-> NoDelivery]

InitMerge ==
    /\ mergeA = TopologyGossipData(Ourself, {})
    /\ mergeB = TopologyGossipData(Ourself, {})
    /\ mergeAB = NilData
    /\ mergeBA = NilData
    /\ mergeAA = NilData

\* The registry under concurrent goroutines.
Init == InitRouter /\ InitMesh /\ InitMerge

Next ==
    \E p \in Procs :
        \/ \E n \in ChannelNames, g \in AppGossipers : NewGossipCall(p, n, g)
        \/ NewGossipLock(p)
        \/ NewGossipBody(p)
        \/ \E n \in ChannelNames : GetGossipLock(p, n)
        \/ GetGossipBody(p)
        \/ \E n \in ChannelNames : gossipChannelCall(p, n)
        \/ gossipChannelRLock(p)
        \/ gossipChannelRead(p)
        \/ gossipChannelLock(p)
        \/ gossipChannelCreate(p)

Spec == Init /\ [][Next]_vars

\* One connection's goroutine dispatching inbound gossip, every payload and
\* tag, while the application registers channels.
Dispatcher == 1

NextDispatch ==
    \/ \E tag \in ProtocolTags, first \in NameValues :
          handleGossipCall(Dispatcher, tag, first)
    \/ gossipChannelRLock(Dispatcher)
    \/ gossipChannelRead(Dispatcher)
    \/ gossipChannelLock(Dispatcher)
    \/ gossipChannelCreate(Dispatcher)
    \/ \E second \in SrcValues, third \in MsgValues, appErr \in {"", "callback"} :
          handleGossipDispatch(Dispatcher, second, third, appErr)
    \/ \E n \in ChannelNames, g \in AppGossipers : NewGossipCall(Dispatcher, n, g)
    \/ NewGossipLock(Dispatcher)
    \/ NewGossipBody(Dispatcher)

SpecDispatch == Init /\ [][NextDispatch]_vars

\* Two routers exchanging topology gossip about a third peer.
NextMesh ==
    \/ \E router \in Routers, targets \in SUBSET Routers, tag \in TopologyTags :
          /\ targets \subseteq Neighbours(router)
          /\ Learn(router, ThirdPeer, targets, tag)
    \/ \E msg \in network, keep \in BOOLEAN : DeliverTopology(msg, keep)

SpecMesh == Init /\ [][NextMesh]_vars

\* Merge on every pair of topologyGossipData over PeerNames.
InitMergeInputs ==
    /\ InitRouter
    /\ InitMesh
    /\ mergeA \in {TopologyGossipData(r, u) : r \in Routers, u \in SUBSET PeerNames}
    /\ mergeB \in {TopologyGossipData(r, u) : r \in Routers, u \in SUBSET PeerNames}
    /\ mergeAB = NilData
    /\ mergeBA = NilData
    /\ mergeAA = NilData

NextMerge == MergeAB \/ MergeBA \/ MergeAA

SpecMerge == InitMergeInputs /\ [][NextMerge]_vars

\* A router with any GossiperMaker: one goroutine dispatches inbound gossip,
\* another resolves and registers channels.
Registrar == 2

LeanSrcValues == {PeerNameValue(ThirdPeer), Garbage}
LeanMsgValues == {BytesValue(<<>>), BytesValue(<<ThirdPeer>>), Garbage, EndOfStream}

InitMaker ==
    /\ InitRegistry
    /\ InitAccept
    /\ GossiperMaker \in GossiperMakers
    /\ InitMesh
    /\ InitMerge

NextMaker ==
    \/ \E tag \in GossipTags, first \in NameValues :
          handleGossipCall(Dispatcher, tag, first)
    \/ \E second \in LeanSrcValues, third \in LeanMsgValues, appErr \in {"", "callback"} :
          handleGossipDispatch(Dispatcher, second, third, appErr)
    \/ \E n \in ChannelNames : gossipChannelCall(Registrar, n)
    \/ \E n \in ChannelNames : NewGossipCall(Registrar, n, "g1")
    \/ NewGossipLock(Registrar)
    \/ NewGossipBody(Registrar)
    \/ \E p \in {Dispatcher, Registrar} :
          \/ gossipChannelRLock(p)
          \/ gossipChannelRead(p)
          \/ gossipChannelLock(p)
          \/ gossipChannelCreate(p)

SpecMaker == InitMaker /\ [][NextMaker]_vars

\* The whole registry API: one goroutine dispatches inbound gossip and sends
\* the periodic gossip, another registers, looks up and lists channels.
NextRouter ==
    \/ \E tag \in ProtocolTags, first \in NameValues :
          handleGossipCall(Dispatcher, tag, first)
    \/ \E second \in LeanSrcValues, third \in LeanMsgValues, appErr \in {"", "callback"} :
          handleGossipDispatch(Dispatcher, second, third, appErr)
    \/ \E op \in SendAllOps : gossipChannelSetCall(Dispatcher, op)
    \/ \E channel \in local[Dispatcher].remaining, pending \in BOOLEAN :
          sendAllGossipRange(Dispatcher, channel, pending)
    \/ gossipChannelSetCall(Registrar, "gossipChannelSet")
    \/ \E n \in ChannelNames : gossipChannelCall(Registrar, n)
    \/ \E n \in ChannelNames, g \in AppGossipers : NewGossipCall(Registrar, n, g)
    \/ NewGossipLock(Registrar)
    \/ NewGossipBody(Registrar)
    \/ \E n \in ChannelNames : GetGossipLock(Registrar, n)
    \/ GetGossipBody(Registrar)
    \/ \E p \in {Dispatcher, Registrar} :
          \/ gossipChannelRLock(p)
          \/ gossipChannelRead(p)
          \/ gossipChannelLock(p)
          \/ gossipChannelCreate(p)
          \/ gossipChannelSetRLock(p)
          \/ gossipChannelSetCopy(p)

SpecRouter == Init /\ [][NextRouter]_vars

\* The accept loop of a started router.
NextAccept ==
    \/ \E err \in BOOLEAN : AcceptTCP(err)
    \/ acceptTCP
    \/ wait
    \/ waitReturn
    \/ Tick

SpecAccept == Init /\ [][NextAccept]_vars

\* ------------------------------------------------------------------ claims
\* C1: if the name already has a channel, NewGossip returns a duplicate-
\* channel error and no channel, and the registry is left exactly as it was.
C1_DuplicateRejected ==
    [][\A p \in Procs :
          (/\ pc[p] = "NewGossip_locked"
           /\ pc'[p] = "done"
           /\ gossipChannels[local[p].name] # NoChannel)
          => /\ local'[p].err = "duplicate channel"
             /\ local'[p].channel = NoChannel
             /\ gossipChannels' = gossipChannels]_vars

\* A NewGossip that failed on a name bound to a channel with another Gossiper.
C1_Witness ==
    \E p \in Procs :
        /\ pc[p] = "done"
        /\ local[p].op = "NewGossip"
        /\ local[p].err = "duplicate channel"
        /\ gossipChannels[local[p].name] # NoChannel
        /\ gossipChannels[local[p].name].gossiper # local[p].g

\* C2: for every name at most one surrogate channel is ever built, every
\* gossipChannel call returns the channel the registry holds for its name
\* (so concurrent calls return the same one), and a call that builds a
\* surrogate changes the registry at that name only.
C2_OneSurrogate ==
    /\ [](\A n \in ChannelNames : surrogates[n] <= 1)
    /\ [](\A p \in Procs :
            (pc[p] = "done" /\ local[p].op = "gossipChannel")
            => /\ local[p].channel # NoChannel
               /\ local[p].channel = gossipChannels[local[p].name])
    /\ [](\A p, q \in Procs :
            (/\ pc[p] = "done" /\ local[p].op = "gossipChannel"
             /\ pc[q] = "done" /\ local[q].op = "gossipChannel"
             /\ local[p].name = local[q].name)
            => local[p].channel.id = local[q].channel.id)
    /\ [][\A p \in Procs :
            (/\ pc[p] = "gossipChannel_locked"
             /\ pc'[p] = "done"
             /\ gossipChannels[local[p].name] = NoChannel)
            => /\ gossipChannels'[local[p].name] # NoChannel
               /\ surrogates'[local[p].name] = surrogates[local[p].name] + 1
               /\ \A n \in ChannelNames \ {local[p].name} :
                     gossipChannels'[n] = gossipChannels[n]]_vars

\* Two calls for the same name both missed it on the first look-up, both
\* went on to the exclusive lock, and both returned the one surrogate.
C2_Witness ==
    \E p, q \in Procs :
        /\ p # q
        /\ pc[p] = "done" /\ local[p].op = "gossipChannel" /\ local[p].lookups = 2
        /\ pc[q] = "done" /\ local[q].op = "gossipChannel" /\ local[q].lookups = 2
        /\ local[p].name = local[q].name
        /\ local[p].channel.gossiper = "surrogate"
        /\ surrogates[local[p].name] = 1

\* A finished handleGossip whose header (channel name, sender) decoded.
Dispatched(p) ==
    /\ pc[p] = "done"
    /\ local[p].op = "handleGossip"
    /\ Decode(local[p].payload, 1, "string").err = ""
    /\ Decode(local[p].payload, 2, "PeerName").err = ""

\* A finished handleGossip that reached the router's own callback `method`.
TopologyCallback(p, method) ==
    /\ Dispatched(p)
    /\ local[p].callbacks = <<[method |-> method, gossiper |-> "router"]>>

\* The message that callback was given.
Msg(p) == local[p].payload[3].b

\* C3: with a header that decodes and a gossip tag, handleGossip invokes
\* exactly one delivery operation, the one the tag selects, on the channel
\* registered under the decoded name, and returns that delivery's result.
C3_OneDeliveryByTag ==
    \A p \in Procs :
        (Dispatched(p) /\ local[p].tag \in GossipTags)
        => /\ Len(local[p].delivered) = 1
           /\ local[p].tag = "ProtocolGossipUnicast"
                 => local[p].delivered[1].op = "deliverUnicast"
           /\ local[p].tag = "ProtocolGossipBroadcast"
                 => local[p].delivered[1].op = "deliverBroadcast"
           /\ local[p].tag = "ProtocolGossip"
                 => local[p].delivered[1].op = "deliver"
           /\ local[p].delivered[1].channel.name = local[p].payload[1].s
           /\ local[p].delivered[1].channel = gossipChannels[local[p].payload[1].s]
           /\ local[p].err = local[p].out.err

\* A broadcast for "topology" was delivered by deliverBroadcast to the
\* router's OnGossipBroadcast, which returned data to relay.
C3_Witness ==
    \E p \in Procs :
        /\ TopologyCallback(p, "OnGossipBroadcast")
        /\ local[p].tag = "ProtocolGossipBroadcast"
        /\ local[p].delivered[1].op = "deliverBroadcast"
        /\ local[p].delivered[1].channel.name = "topology"
        /\ ~local[p].out.data.nil

\* C4: a topology update delivered through OnGossipBroadcast or OnGossip
\* invokes refresh() and recalculate() once each if applyUpdate reported a
\* non-empty newDelta, and neither if it reported none or failed.
C4_RefreshIffNew ==
    \A p \in Procs :
        (TopologyCallback(p, "OnGossipBroadcast") \/ TopologyCallback(p, "OnGossip"))
        => LET a == applyUpdate(local[p].known, Msg(p))
           IN  IF a.err = "" /\ a.newUpdate # {}
               THEN local[p].out.refresh = 1 /\ local[p].out.recalculate = 1
               ELSE local[p].out.refresh = 0 /\ local[p].out.recalculate = 0

\* An update naming a known peer and a new one made the router refresh and
\* recalculate once.
C4_Witness ==
    \E p \in Procs :
        /\ TopologyCallback(p, "OnGossipBroadcast")
        /\ local[p].out.newUpdate # {}
        /\ local[p].out.newUpdate # local[p].out.origUpdate
        /\ local[p].out.refresh = 1
        /\ local[p].out.recalculate = 1

\* C5, as claimed: OnGossipBroadcast returns nothing to relay whenever the
\* applied delta introduced nothing new.
C5_Original ==
    \A p \in Procs :
        (/\ TopologyCallback(p, "OnGossipBroadcast")
         /\ local[p].out.err = ""
         /\ local[p].out.newUpdate = {})
        => local[p].out.data.nil

\* C5, amended: OnGossipBroadcast returns nothing to relay exactly when
\* applyUpdate failed or the received delta names no peer; a received delta
\* that names only peers already known is still returned for relay.
C5_NilIffNothingReceived ==
    \A p \in Procs :
        TopologyCallback(p, "OnGossipBroadcast")
        => LET a == applyUpdate(local[p].known, Msg(p))
           IN  /\ local[p].out.data.nil <=> (a.err # "" \/ a.origUpdate = {})
               /\ (a.err = "" /\ a.origUpdate # {} /\ a.newUpdate = {})
                     => ~local[p].out.data.nil

\* A delta naming only known peers came back from OnGossipBroadcast.
C5_Witness ==
    \E p \in Procs :
        /\ TopologyCallback(p, "OnGossipBroadcast")
        /\ local[p].out.err = ""
        /\ local[p].out.newUpdate = {}
        /\ local[p].out.origUpdate # {}
        /\ ~local[p].out.data.nil

\* C6: what OnGossipBroadcast returns for relay holds exactly the names of
\* the delta as received, never the improvement.
C6_BroadcastRelaysReceived ==
    \A p \in Procs :
        (TopologyCallback(p, "OnGossipBroadcast") /\ ~local[p].out.data.nil)
        => /\ local[p].out.data.update = decodeUpdate(Msg(p)).names
           /\ local[p].out.data.update = applyUpdate(local[p].known, Msg(p)).origUpdate

\* A relayed delta whose improvement was non-empty and smaller.
C6_Witness ==
    \E p \in Procs :
        /\ TopologyCallback(p, "OnGossipBroadcast")
        /\ ~local[p].out.data.nil
        /\ local[p].out.newUpdate # {}
        /\ local[p].out.newUpdate # local[p].out.data.update

\* C7: OnGossip returns exactly the newDelta of applyUpdate, nothing when it
\* is empty, so what it relays was new to the receiver and names no peer
\* the receiver knew.
C7_GossipRelaysImprovement ==
    \A p \in Procs :
        TopologyCallback(p, "OnGossip")
        => LET a == applyUpdate(local[p].known, Msg(p))
           IN  /\ (a.err # "" \/ a.newUpdate = {}) => local[p].out.data.nil
               /\ (a.err = "" /\ a.newUpdate # {})
                     => /\ ~local[p].out.data.nil
                        /\ local[p].out.data.update = a.newUpdate
               /\ local[p].out.data.update \subseteq decodeUpdate(Msg(p)).names \ local[p].known
               /\ local[p].out.data.update \cap local[p].known = {}

\* OnGossip relayed less than it received.
C7_Witness ==
    \E p \in Procs :
        /\ TopologyCallback(p, "OnGossip")
        /\ ~local[p].out.data.nil
        /\ local[p].out.data.update # local[p].out.origUpdate
        /\ decodeUpdate(Msg(p)).names \cap local[p].known # {}

\* C8: the topology channel's OnGossipUnicast returns an error, leaves
\* Peers as it was and invokes neither refresh() nor recalculate().
C8_UnicastRejected ==
    \A p \in Procs :
        TopologyCallback(p, "OnGossipUnicast")
        => /\ local[p].err # ""
           /\ local[p].out.err # ""
           /\ local[p].out.peers = local[p].known
           /\ peers[Ourself] = local[p].known
           /\ local[p].out.refresh = 0
           /\ local[p].out.recalculate = 0

\* A unicast on "topology" whose message names a peer the router does not
\* know, and still does not know afterwards.
C8_Witness ==
    \E p \in Procs :
        /\ TopologyCallback(p, "OnGossipUnicast")
        /\ local[p].tag = "ProtocolGossipUnicast"
        /\ ~decodeUpdate(Msg(p)).err
        /\ decodeUpdate(Msg(p)).names \ peers[Ourself] # {}
        /\ local[p].err # ""

\* C9: the names of A.Merge(B) are those of B.Merge(A), the names of
\* A.Merge(A) are those of A, and the names of A.Merge(B) are exactly the
\* union of the names of A and of B.
C9_MergeIsUnion ==
    /\ (~mergeAB.nil /\ ~mergeBA.nil) => mergeAB.update = mergeBA.update
    /\ ~mergeAA.nil => mergeAA.update = mergeA.update
    /\ ~mergeAB.nil
          => /\ mergeA.update \subseteq mergeAB.update
             /\ mergeB.update \subseteq mergeAB.update
             /\ \A n \in mergeAB.update : n \in mergeA.update \/ n \in mergeB.update
    /\ ~mergeBA.nil
          => /\ mergeA.update \subseteq mergeBA.update
             /\ mergeB.update \subseteq mergeBA.update
             /\ \A n \in mergeBA.update : n \in mergeA.update \/ n \in mergeB.update

\* All three merges made, of operands that overlap and of which neither
\* holds the other.
C9_Witness ==
    /\ ~mergeAB.nil
    /\ ~mergeBA.nil
    /\ ~mergeAA.nil
    /\ mergeA.update \ mergeB.update # {}
    /\ mergeB.update \ mergeA.update # {}
    /\ mergeA.update \cap mergeB.update # {}

\* C10: once a router has taken in a topology delta, every further delivery
\* of the same delta to it yields an empty newDelta (none that names the
\* third peer) and invokes neither recalculate() nor refresh().
C10_SecondRoundIdle ==
    \A r \in Routers :
        lastDelivery[r].repeated
        => /\ lastDelivery[r].out.err = ""
           /\ lastDelivery[r].out.newUpdate = {}
           /\ ThirdPeer \notin lastDelivery[r].out.newUpdate
           /\ lastDelivery[r].out.recalculate = 0
           /\ lastDelivery[r].out.refresh = 0

\* Both routers connected to the third peer themselves, and each has taken
\* in the other's delta about it a second time.
C10_Witness ==
    \A r \in Routers :
        /\ ThirdPeer \in connected[r]
        /\ ThirdPeer \in peers[r]
        /\ lastDelivery[r].repeated
        /\ lastDelivery[r].update = <<ThirdPeer>>

\* C11: a channel that gossipChannel creates has the Gossiper made by the
\* GossiperMaker if one is set and the default surrogate otherwise;
\* MakeGossiper is invoked at most once per name and only for a name that
\* has no channel; and a message for a channel with the default surrogate
\* is processed without an error.
C11_SurrogateFromMaker ==
    /\ [](\A n \in ChannelNames : makerCalls[n] <= 1)
    /\ [](\A n \in ChannelNames : GossiperMaker.nil => makerCalls[n] = 0)
    /\ [][\A n \in ChannelNames :
            makerCalls'[n] # makerCalls[n]
            => /\ gossipChannels[n] = NoChannel
               /\ makerCalls'[n] = makerCalls[n] + 1]_vars
    /\ [][\A n \in ChannelNames :
            surrogates'[n] # surrogates[n]
            => /\ gossipChannels[n] = NoChannel
               /\ gossipChannels'[n].gossiper =
                     IF GossiperMaker.nil THEN "surrogate" ELSE "made"
               /\ GossiperMaker.nil => makerCalls'[n] = makerCalls[n]
               /\ ~GossiperMaker.nil => makerCalls'[n] = makerCalls[n] + 1]_vars
    /\ [](\A p \in Procs :
            (/\ Dispatched(p)
             /\ local[p].tag \in GossipTags
             /\ local[p].channel.gossiper = "surrogate"
             /\ Decode(local[p].payload, 3, "bytes").err = "")
            => /\ local[p].err = ""
               /\ gossipChannels[local[p].name] = local[p].channel)

\* A message for the unregistered "app" made a router with a GossiperMaker
\* create the channel with the made Gossiper, MakeGossiper called once.
C11_Witness ==
    \E p \in Procs :
        /\ Dispatched(p)
        /\ local[p].name = "app"
        /\ local[p].lookups = 2
        /\ ~local[p].found
        /\ ~GossiperMaker.nil
        /\ gossipChannels["app"].gossiper = "made"
        /\ makerCalls["app"] = 1
        /\ surrogates["app"] = 1

\* A goroutine that waits for the registry lock.
WaitsForLock(p) ==
    pc[p] \in {"NewGossip_Lock", "gossipChannel_RLock", "gossipChannel_Lock",
               "gossipChannelSet_RLock", "MakeGossiper_Lock"}

\* C19, as claimed: resolving an absent name always ends and releases the
\* lock, whatever MakeGossiper calls: no goroutine waits for the registry
\* lock while holding it exclusively itself (such a wait never ends).
C19_NoSelfDeadlock ==
    \A p \in Procs : WaitsForLock(p) => gossipLock.writer # p

\* A finished handleGossip whose header did not decode: the channel name or
\* the sender was malformed, and the call returned the decode error before
\* the switch.
HeaderFailed(p) ==
    /\ pc[p] = "done"
    /\ local[p].op = "handleGossip"
    /\ local[p].err = "decode"
    /\ \/ Decode(local[p].payload, 1, "string").err # ""
       \/ Decode(local[p].payload, 2, "PeerName").err # ""

\* The gossipChannel call of goroutine p built the channel it returned: it
\* missed the name on both look-ups.
BuiltChannel(p) == local[p].lookups = 2 /\ ~local[p].found

\* C12, as claimed: a message whose header fails to decode returns the
\* decode error, reaches no delivery operation and no callback, and leaves
\* the registry as it was: the call built no channel.
C12_HeaderErrorLeavesRegistry ==
    \A p \in Procs :
        HeaderFailed(p)
        => /\ local[p].delivered = <<>>
           /\ local[p].callbacks = <<>>
           /\ ~BuiltChannel(p)

\* C12, the part that holds: a message whose header fails to decode returns
\* the decode error and reaches no delivery operation and no callback.
C12_HeaderErrorDeliversNothing ==
    \A p \in Procs :
        HeaderFailed(p) => local[p].delivered = <<>> /\ local[p].callbacks = <<>>

\* A message named the unregistered "app" and carried a malformed sender:
\* the surrogate for "app" was built and stays in the registry.
C12_SurrogateLeftBehind ==
    \E p \in Procs :
        /\ HeaderFailed(p)
        /\ local[p].payload[1] = StringValue("app")
        /\ local[p].payload[2] = Garbage
        /\ BuiltChannel(p)
        /\ gossipChannels["app"] = local[p].channel
        /\ surrogates["app"] = 1

\* C20: with a header that decodes and a tag the switch has no case for,
\* handleGossip reaches no delivery operation and no callback and returns no
\* error, and the decoded name has been resolved: it is bound in the
\* registry to the channel the call obtained.
C20_UnknownTagResolvesOnly ==
    \A p \in Procs :
        (Dispatched(p) /\ local[p].tag \notin GossipTags)
        => /\ local[p].delivered = <<>>
           /\ local[p].callbacks = <<>>
           /\ local[p].err = ""
           /\ local[p].out = NoOutcome
           /\ local[p].name = local[p].payload[1].s
           /\ local[p].channel # NoChannel
           /\ gossipChannels[local[p].name] = local[p].channel

\* A heartbeat-tagged message for the unregistered "app" delivered nothing
\* and left the surrogate for "app" in the registry.
C20_Witness ==
    \E p \in Procs :
        /\ Dispatched(p)
        /\ local[p].tag = "ProtocolHeartbeat"
        /\ local[p].name = "app"
        /\ BuiltChannel(p)
        /\ gossipChannels["app"].gossiper = "surrogate"
        /\ surrogates["app"] = 1
        /\ local[p].err = ""

\* C14, as claimed: look-ups and the snapshot take shared access, so the
\* lock is held exclusively only by a registration (NewGossip) or by a
\* gossipChannel call on its way to create a surrogate.
C14_OnlyCreationExclusive ==
    \A p \in Procs :
        gossipLock.writer = p => pc[p] \in {"NewGossip_locked", "gossipChannel_locked"}

\* The registered channels of a registry map.
Registered(channels) == {channels[n] : n \in {m \in ChannelNames : channels[m] # NoChannel}}

\* C15: sendAllGossip and sendAllGossipDown call Gossip(), Send and SendDown
\* without the registry lock: gossipChannelSet returns exactly the channels
\* registered when it copied them and has released the lock, no turn of the
\* range loop runs under the lock, and a NewGossip or a surrogate creation
\* that waits for the lock can take it while the loop is under way unless
\* another goroutine holds it.
C15_SendsOutsideLock ==
    /\ [](\A p \in Procs : pc[p] = "sendAllGossip_range" => ~HoldsLock(p))
    /\ [](\A p \in Procs : \A s \in local[p].sends : ~s.locked)
    /\ [][\A p \in Procs :
            (pc[p] = "gossipChannelSet_rlocked" /\ pc'[p] # pc[p])
            => /\ local'[p].channels = Registered(gossipChannels)
               /\ gossipChannels' = gossipChannels
               /\ p \notin gossipLock'.readers
               /\ gossipLock'.writer # p]_vars
    /\ [][\A p \in Procs :
            (pc[p] = "sendAllGossip_range" /\ local'[p] # local[p])
            => /\ ~HoldsLock(p)
               /\ gossipLock' = gossipLock
               /\ local'[p].channels = local[p].channels]_vars
    /\ [](\A p, q \in Procs :
            (/\ pc[p] = "sendAllGossip_range"
             /\ pc[q] \in {"NewGossip_Lock", "gossipChannel_Lock"}
             /\ \A r \in Procs \ {p} : ~HoldsLock(r))
            => CanLock)

\* In the middle of a sendAllGossip over two channels, one of them sent
\* already, a NewGossip of the other goroutine holds the lock exclusively.
C15_Witness ==
    \E p, q \in Procs :
        /\ pc[p] = "sendAllGossip_range"
        /\ Cardinality(local[p].channels) = 2
        /\ local[p].remaining # {}
        /\ \E s \in local[p].sends : s.sent
        /\ pc[q] = "NewGossip_locked"
        /\ gossipLock.writer = q

\* C17: "topology" is always bound to the channel NewRouter registered,
\* whose Gossiper is the router, and a name once bound stays bound to the
\* same channel.
C17_EntriesOnlyAdded ==
    /\ [](/\ gossipChannels["topology"].name = "topology"
          /\ gossipChannels["topology"].gossiper = "router")
    /\ [][\A n \in ChannelNames :
            gossipChannels[n] # NoChannel => gossipChannels'[n] = gossipChannels[n]]_vars

\* "app" is bound; a NewGossip for it was turned down, and a later message
\* for it found the channel on the first look-up.
C17_Witness ==
    \E p, q \in Procs :
        /\ gossipChannels["app"] # NoChannel
        /\ pc[p] = "done" /\ local[p].op = "NewGossip" /\ local[p].name = "app"
        /\ local[p].err = "duplicate channel"
        /\ Dispatched(q) /\ local[q].name = "app" /\ local[q].lookups = 1
        /\ local[q].channel = gossipChannels["app"]

\* C18: once a surrogate was created for a name, the name stays bound to
\* the surrogate Gossiper, a NewGossip for it fails as a duplicate and
\* attaches nothing, and messages for it go to the surrogate; a message
\* reaches an application's Gossiper only under a name for which no
\* surrogate was ever created, bound to that Gossiper by NewGossip.
C18_FirstBindingWins ==
    /\ [](\A n \in ChannelNames :
            surrogates[n] > 0 => gossipChannels[n].gossiper = SurrogateGossiper(n))
    /\ [][\A p \in Procs :
            (/\ pc[p] = "NewGossip_locked"
             /\ pc'[p] = "done"
             /\ surrogates[local[p].name] > 0)
            => /\ local'[p].err = "duplicate channel"
               /\ local'[p].channel = NoChannel
               /\ gossipChannels' = gossipChannels]_vars
    /\ [](\A p \in Procs :
            (Dispatched(p) /\ local[p].tag \in GossipTags /\ surrogates[local[p].name] > 0)
            => /\ local[p].delivered[1].channel.gossiper = SurrogateGossiper(local[p].name)
               /\ \A i \in DOMAIN local[p].callbacks :
                     local[p].callbacks[i].gossiper = SurrogateGossiper(local[p].name))
    /\ [](\A p \in Procs :
            (/\ Dispatched(p)
             /\ local[p].callbacks # <<>>
             /\ local[p].callbacks[1].gossiper \in AppGossipers)
            => /\ surrogates[local[p].name] = 0
               /\ gossipChannels[local[p].name].gossiper = local[p].callbacks[1].gossiper)

\* A surrogate was created for "app", the NewGossip("app", g) that came
\* after it failed, and a later message for "app" reached the surrogate.
C18_Witness ==
    \E p, q \in Procs :
        /\ surrogates["app"] = 1
        /\ pc[p] = "done" /\ local[p].op = "NewGossip" /\ local[p].name = "app"
        /\ local[p].err = "duplicate channel"
        /\ local[p].g \in AppGossipers
        /\ Dispatched(q) /\ local[q].name = "app" /\ local[q].lookups = 1
        /\ local[q].callbacks = <<[method |-> "OnGossip", gossiper |-> "surrogate"]>>

\* C13: the accept loop's limiter has capacity 20 and delay 50ms; from the
\* full bucket, with no time passing between the calls, each of the first
\* 20 wait() calls returns without blocking and the 21st blocks for at
\* least 50ms.
C13_BurstThenBlock ==
    /\ [](acceptLimiter.capacity = 20 /\ acceptLimiter.tokenInterval = 50)
    /\ [][(/\ acceptLoop.burst
           /\ acceptLoop.waits < acceptMaxTokens
           /\ acceptLoop'.pc # acceptLoop.pc
           /\ acceptLoop.pc = "wait")
          => /\ acceptLoop'.pc = "AcceptTCP"
             /\ acceptLoop'.waits = acceptLoop.waits + 1
             /\ acceptLoop'.lastBlocked = 0]_vars
    /\ [][(/\ acceptLoop.burst
           /\ acceptLoop.waits = acceptMaxTokens
           /\ acceptLoop'.pc # acceptLoop.pc
           /\ acceptLoop.pc = "wait")
          => acceptLoop'.pc = "wait_blocked"]_vars
    /\ [][(/\ acceptLoop.burst
           /\ acceptLoop.waits = acceptMaxTokens
           /\ acceptLoop'.waits = acceptLoop.waits + 1)
          => acceptLoop'.lastBlocked >= acceptTokenDelay]_vars

\* Twenty-one connections came in with no time between them: the 21st
\* wait() has returned after blocking for 50ms.
C13_Witness ==
    /\ acceptLoop.burst
    /\ acceptLoop.waits = 21
    /\ acceptLoop.lastBlocked = 50
    /\ acceptLimiter.tokens = 0

\* C16: a connection that AcceptTCP returns goes to acceptTCP and then
\* through exactly one wait() before the next AcceptTCP; a failed AcceptTCP
\* is logged, hands nothing off, does not wait, and leads to the next
\* AcceptTCP; the loop never ends.
C16_AcceptLoop ==
    /\ [](acceptLoop.pc \in {"AcceptTCP", "acceptTCP", "wait", "wait_blocked"})
    /\ [](acceptLoop.pc = "AcceptTCP"
            => acceptLoop.handedOff = acceptLoop.accepted
               /\ acceptLoop.waits = acceptLoop.accepted)
    /\ [](acceptLoop.pc = "acceptTCP"
            => acceptLoop.handedOff + 1 = acceptLoop.accepted
               /\ acceptLoop.waits + 1 = acceptLoop.accepted)
    /\ [](acceptLoop.pc \in {"wait", "wait_blocked"}
            => acceptLoop.handedOff = acceptLoop.accepted
               /\ acceptLoop.waits + 1 = acceptLoop.accepted)
    /\ [][acceptLoop'.logged # acceptLoop.logged
          => /\ acceptLoop.pc = "AcceptTCP"
             /\ acceptLoop'.pc = "AcceptTCP"
             /\ acceptLoop'.logged = acceptLoop.logged + 1
             /\ acceptLoop'.accepted = acceptLoop.accepted
             /\ acceptLoop'.handedOff = acceptLoop.handedOff
             /\ acceptLoop'.waits = acceptLoop.waits
             /\ acceptLimiter' = acceptLimiter]_vars
    /\ [][acceptLoop'.accepted # acceptLoop.accepted
          => /\ acceptLoop.pc = "AcceptTCP"
             /\ acceptLoop'.pc = "acceptTCP"
             /\ acceptLoop'.accepted = acceptLoop.accepted + 1
             /\ acceptLoop'.logged = acceptLoop.logged]_vars
    /\ [][(acceptLoop.pc = "acceptTCP" /\ acceptLoop'.pc # "acceptTCP")
          => /\ acceptLoop'.pc = "wait"
             /\ acceptLoop'.handedOff = acceptLoop.handedOff + 1]_vars
    /\ [][(acceptLoop.pc # "AcceptTCP" /\ acceptLoop'.pc = "AcceptTCP")
          => /\ acceptLoop.pc \in {"wait", "wait_blocked"}
             /\ acceptLoop'.waits = acceptLoop.waits + 1
             /\ acceptLimiter'.tokens = acceptLimiter.tokens - 1]_vars

\* After two failed accepts and three connections, each handed off and
\* waited for, the loop is at AcceptTCP again.
C16_Witness ==
    /\ acceptLoop.pc = "AcceptTCP"
    /\ acceptLoop.logged = 2
    /\ acceptLoop.accepted = 3
    /\ acceptLoop.handedOff = 3
    /\ acceptLoop.waits = 3

====
